---- MODULE Spec2Model ----
(***************************************************************************)
(* Model of src/Mahony.js: the closure returned by Mahony(sampleInterval)  *)
(* with its operations initialise, update (mahonyAHRSupdate, which may     *)
(* delegate to mahonyAHRSupdateIMU), getQuaternion and toVector.           *)
(*                                                                         *)
(* Numbers.  The JavaScript code computes with IEEE-754 doubles.  Here a   *)
(* finite number x is the integer round(x * SCALE) (fixed point), every    *)
(* product, quotient and root is rounded to the nearest unit, as the       *)
(* double operations round to the nearest double.  The values that only    *)
(* toVector can produce from finite state (NaN, +-Infinity) are carried by *)
(* the records Fin/NaN/Inf.  The bitwise OR of line 165 works on the       *)
(* ToInt32 conversions of its operands, as in ECMAScript.                  *)
(***************************************************************************)
EXTENDS Integers, Sequences, FiniteSets, TLC

\* Resolution of the fixed-point numbers: 1.0 is SCALE units.
SCALE == 10000
\* At most MaxCalls calls of the object's methods per behaviour.
MaxCalls == 2
\* Rounding allowance, in units, for the squared norm of a normalised quaternion.
NormTol == 10

VARIABLES
    sampleInterval,   \* constructor argument, in ms (line 20)
    twoKp, twoKi,     \* lines 34-35
    q,                \* <<q0, q1, q2, q3>>, line 36
    integralFB,       \* <<integralFBx, integralFBy, integralFBz>>, line 37
    recipSampleFreq,  \* line 29, reassigned at line 165
    ret,              \* value returned by the last getQuaternion / toVector
    last,             \* the last call of initialise or update, with its arguments
    pre,              \* the filter state before that call, and the variant of
                      \* the call before it
    calls             \* number of calls made

vars == <<sampleInterval, twoKp, twoKi, q, integralFB, recipSampleFreq,
          ret, last, pre, calls>>

----------------------------------------------------------------------------
\* Number arithmetic

One == SCALE
Half == SCALE \div 2
Zero3 == <<0, 0, 0>>
Identity == <<One, 0, 0, 0>>

Abs(n) == IF n < 0 THEN -n ELSE n

\* n / d rounded to the nearest integer, halves away from zero.
RoundDiv(n, d) ==
    LET an == Abs(n)
        ad == Abs(d)
        r  == (an + ad \div 2) \div ad
    IN IF (n < 0) = (d < 0) THEN r ELSE -r

\* a * b
Mul(a, b) == RoundDiv(a * b, SCALE)

RECURSIVE ISqrtBits(_, _, _)
ISqrtBits(n, r, bit) ==
    IF bit = 0 THEN r
    ELSE LET c == r + bit
         IN IF c <= 46340 /\ c * c <= n
            THEN ISqrtBits(n, c, bit \div 2)
            ELSE ISqrtBits(n, r, bit \div 2)

\* Integer square root of n >= 0, rounded to the nearest integer.
ISqrt(n) ==
    LET r == ISqrtBits(n, 0, 32768)
    IN IF n - r * r > r THEN r + 1 ELSE r

\* Math.sqrt(x), x >= 0
Sqrt(x) == ISqrt(x * SCALE)

\* Math.pow(x, -0.5), x > 0
InvSqrt(x) == RoundDiv(SCALE * SCALE, Sqrt(x))

\* ToInt32(x) for a finite x within the int32 range: truncation towards zero.
ToInt32(x) == IF x >= 0 THEN x \div SCALE ELSE -((-x) \div SCALE)

RECURSIVE BitOr(_, _)
\* a | b for int32 operands a, b >= 0.
BitOr(a, b) ==
    IF a = 0 THEN b
    ELSE IF b = 0 THEN a
    ELSE (IF a % 2 = 1 \/ b % 2 = 1 THEN 1 ELSE 0) + 2 * BitOr(a \div 2, b \div 2)

----------------------------------------------------------------------------
\* Construction (lines 26-37)

\* line 26: sampleFreq = 1000 / sampleInterval, sampleInterval in whole ms
SampleFreq(interval) == RoundDiv(1000 * SCALE, interval)

\* line 29: recipSampleFreq = 1 / sampleFreq
RecipSampleFreq0(interval) == RoundDiv(SCALE * SCALE, SampleFreq(interval))

\* line 27: twoKpDef = 2.0 * 0.5
twoKpDef == Mul(2 * SCALE, Half)

\* line 28: twoKiDef = 2.0 * 0.0
twoKiDef == Mul(2 * SCALE, 0)

----------------------------------------------------------------------------
\* Pieces of the two update functions

\* lines 103 and 180: (ax === 0.0) && (ay === 0.0) && (az === 0.0)
AccelInvalid(a) == a[1] = 0 /\ a[2] = 0 /\ a[3] = 0

\* Faulty variant of MagInvalid: only mx is tested.
MagInvalidOnlyX(m) == m[1] = 0

\* line 174: (mx === 0.0) && (my === 0.0) && (mz === 0.0)
MagInvalid(m) == m[1] = 0 /\ m[2] = 0 /\ m[3] = 0

\* lines 105-108, 183-186, 189-192: scale a vector by pow(x*x + y*y + z*z, -0.5)
NormaliseVec(v) ==
    LET recipNorm == InvSqrt(Mul(v[1], v[1]) + Mul(v[2], v[2]) + Mul(v[3], v[3]))
    IN <<Mul(v[1], recipNorm), Mul(v[2], recipNorm), Mul(v[3], recipNorm)>>

\* lines 111-118: half error of the 6-axis variant, a already normalised
HalfErrIMU(qq, a) ==
    LET q0 == qq[1]
        q1 == qq[2]
        q2 == qq[3]
        q3 == qq[4]
        halfvx == Mul(q1, q3) - Mul(q0, q2)
        halfvy == Mul(q0, q1) + Mul(q2, q3)
        halfvz == Mul(q0, q0) - Half + Mul(q3, q3)
    IN << Mul(a[2], halfvz) - Mul(a[3], halfvy),
          Mul(a[3], halfvx) - Mul(a[1], halfvz),
          Mul(a[1], halfvy) - Mul(a[2], halfvx) >>

\* lines 195-204: the auxiliary products q0q0 .. q3q3
QuatProducts(qq) ==
    [q0q0 |-> Mul(qq[1], qq[1]), q0q1 |-> Mul(qq[1], qq[2]), q0q2 |-> Mul(qq[1], qq[3]),
     q0q3 |-> Mul(qq[1], qq[4]), q1q1 |-> Mul(qq[2], qq[2]), q1q2 |-> Mul(qq[2], qq[3]),
     q1q3 |-> Mul(qq[2], qq[4]), q2q2 |-> Mul(qq[3], qq[3]), q2q3 |-> Mul(qq[3], qq[4]),
     q3q3 |-> Mul(qq[4], qq[4])]

\* lines 207-208: hx and hy, from the products p and the normalised m
FieldH(p, m) ==
    << Mul(2 * SCALE, Mul(m[1], Half - p.q2q2 - p.q3q3) + Mul(m[2], p.q1q2 - p.q0q3)
                      + Mul(m[3], p.q1q3 + p.q0q2)),
       Mul(2 * SCALE, Mul(m[1], p.q1q2 + p.q0q3) + Mul(m[2], Half - p.q1q1 - p.q3q3)
                      + Mul(m[3], p.q2q3 - p.q0q1)) >>

\* line 209: bx = Math.sqrt(hx * hx + hy * hy)
FieldBx(h) == Sqrt(Mul(h[1], h[1]) + Mul(h[2], h[2]))

\* line 210: bz
FieldBz(p, m) ==
    Mul(2 * SCALE, Mul(m[1], p.q1q3 - p.q0q2) + Mul(m[2], p.q2q3 + p.q0q1)
                   + Mul(m[3], Half - p.q1q1 - p.q2q2))

\* lines 213-223: the half error from the products p, the reference field (bx, bz)
\* and the normalised a and m
HalfErrFromField(p, bx, bz, a, m) ==
    LET halfvx == p.q1q3 - p.q0q2
        halfvy == p.q0q1 + p.q2q3
        halfvz == p.q0q0 - Half + p.q3q3
        halfwx == Mul(bx, Half - p.q2q2 - p.q3q3) + Mul(bz, p.q1q3 - p.q0q2)
        halfwy == Mul(bx, p.q1q2 - p.q0q3) + Mul(bz, p.q0q1 + p.q2q3)
        halfwz == Mul(bx, p.q0q2 + p.q1q3) + Mul(bz, Half - p.q1q1 - p.q2q2)
    IN << (Mul(a[2], halfvz) - Mul(a[3], halfvy)) + (Mul(m[2], halfwz) - Mul(m[3], halfwy)),
          (Mul(a[3], halfvx) - Mul(a[1], halfvz)) + (Mul(m[3], halfwx) - Mul(m[1], halfwz)),
          (Mul(a[1], halfvy) - Mul(a[2], halfvx)) + (Mul(m[1], halfwy) - Mul(m[2], halfwx)) >>

\* lines 195-223, from the products p
HalfErrFromProducts(p, a, m) ==
    HalfErrFromField(p, FieldBx(FieldH(p, m)), FieldBz(p, m), a, m)

\* lines 195-223: half error of the 9-axis variant, a and m already normalised
HalfErrAHRS(qq, a, m) == HalfErrFromProducts(QuatProducts(qq), a, m)

\* Faulty variant of IntegralFeedback: the proportional gain is used for the
\* integral gain.
IntegralFeedbackWithKp(fb, halfe, recip) ==
    IF twoKp > 0
    THEN << fb[1] + Mul(Mul(twoKp, halfe[1]), recip),
            fb[2] + Mul(Mul(twoKp, halfe[2]), recip),
            fb[3] + Mul(Mul(twoKp, halfe[3]), recip) >>
    ELSE Zero3

\* lines 121-132 and 226-237, the integral term: the new integralFB
IntegralFeedback(fb, halfe, recip) ==
    IF twoKi > 0
    THEN << fb[1] + Mul(Mul(twoKi, halfe[1]), recip),
            fb[2] + Mul(Mul(twoKi, halfe[2]), recip),
            fb[3] + Mul(Mul(twoKi, halfe[3]), recip) >>
    ELSE Zero3

\* lines 125-127, 134-136 and 230-232, 240-242: the rate with the feedback added,
\* fb being the integralFB just computed
ApplyFeedback(g, fb, halfe) ==
    LET gi == IF twoKi > 0 THEN <<g[1] + fb[1], g[2] + fb[2], g[3] + fb[3]>> ELSE g
    IN << gi[1] + Mul(twoKp, halfe[1]),
          gi[2] + Mul(twoKp, halfe[2]),
          gi[3] + Mul(twoKp, halfe[3]) >>

\* Faulty variant of ScaleRate: += written for *=.
ScaleRateAdds(g, recip) ==
    LET f == Mul(Half, recip)
    IN <<g[1] + f, g[2] + f, g[3] + f>>

\* lines 140-142 and 246-248: g *= (0.5 * recipSampleFreq)
ScaleRate(g, recip) ==
    LET f == Mul(Half, recip)
    IN <<Mul(g[1], f), Mul(g[2], f), Mul(g[3], f)>>

\* lines 143-149 and 249-255: first-order integration from the pre-update components
IntegrateRate(qq, g) ==
    LET qa == qq[1]
        qb == qq[2]
        qc == qq[3]
        q3 == qq[4]
    IN << qa + (Mul(-qb, g[1]) - Mul(qc, g[2]) - Mul(q3, g[3])),
          qb + (Mul(qa, g[1]) + Mul(qc, g[3]) - Mul(q3, g[2])),
          qc + (Mul(qa, g[2]) - Mul(qb, g[3]) + Mul(q3, g[1])),
          q3 + (Mul(qa, g[3]) + Mul(qb, g[2]) - Mul(qc, g[1])) >>

\* q0*q0 + q1*q1 + q2*q2 + q3*q3 (lines 152, 258)
NormSq(qq) == Mul(qq[1], qq[1]) + Mul(qq[2], qq[2]) + Mul(qq[3], qq[3]) + Mul(qq[4], qq[4])

\* Faulty variant of NormaliseQuat: recipNorm is computed and never applied.
NormaliseQuatNotApplied(qq) == qq

\* lines 152-156 and 258-262
NormaliseQuat(qq) ==
    LET recipNorm == InvSqrt(NormSq(qq))
    IN <<Mul(qq[1], recipNorm), Mul(qq[2], recipNorm),
         Mul(qq[3], recipNorm), Mul(qq[4], recipNorm)>>

\* lines 121-136 and 226-242: the rate and integralFB once the half error is known
FeedbackFrom(g, fb, halfe, recip) ==
    [g  |-> ApplyFeedback(g, IntegralFeedback(fb, halfe, recip), halfe),
     fb |-> IntegralFeedback(fb, halfe, recip)]

\* lines 103-137: the rate and integralFB after the 6-axis feedback block
FeedbackIMU(qq, fb, recip, g, a) ==
    IF ~AccelInvalid(a)
    THEN FeedbackFrom(g, fb, HalfErrIMU(qq, NormaliseVec(a)), recip)
    ELSE [g |-> g, fb |-> fb]

\* Faulty variant of FeedbackAHRS: the validity test guards only the
\* normalisation of the accelerometer reading, the feedback is always applied.
FeedbackAHRSGuardsNormalisationOnly(qq, fb, recip, g, a, m) ==
    FeedbackFrom(g, fb,
                 HalfErrAHRS(qq, IF AccelInvalid(a) THEN a ELSE NormaliseVec(a),
                             NormaliseVec(m)),
                 recip)

\* lines 180-243: the rate and integralFB after the 9-axis feedback block
FeedbackAHRS(qq, fb, recip, g, a, m) ==
    IF ~AccelInvalid(a)
    THEN FeedbackFrom(g, fb, HalfErrAHRS(qq, NormaliseVec(a), NormaliseVec(m)), recip)
    ELSE [g |-> g, fb |-> fb]

\* lines 139-156 and 245-262: integrate the rate f.g and normalise; f.fb is the
\* integralFB the feedback block left
IntegrateAndNormalise(qq, f, recip) ==
    [q |-> NormaliseQuat(IntegrateRate(qq, ScaleRate(f.g, recip))), fb |-> f.fb]

\* lines 96-157: mahonyAHRSupdateIMU, from state (qq, fb) with timestep recip
UpdateIMU(qq, fb, recip, g, a) ==
    IntegrateAndNormalise(qq, FeedbackIMU(qq, fb, recip, g, a), recip)

\* lines 179-262: the 9-axis body of mahonyAHRSupdate
UpdateAHRS(qq, fb, recip, g, a, m) ==
    IntegrateAndNormalise(qq, FeedbackAHRS(qq, fb, recip, g, a, m), recip)

\* line 165, the operands of the bitwise OR: deltaTimeSec is <<>> when the
\* argument is not supplied (undefined converts to 0), else <<value>>
DeltaInt32(dt) == IF Len(dt) = 0 THEN 0 ELSE ToInt32(dt[1])

\* line 165: recipSampleFreq = deltaTimeSec | recipSampleFreq
MergeTimestep(dt, recip) == BitOr(DeltaInt32(dt), ToInt32(recip)) * SCALE

\* lines 173-262: the update once line 165 has set the timestep to recip
UpdateWithTimestep(qq, fb, recip, g, a, m) ==
    IF MagInvalid(m)
    THEN UpdateIMU(qq, fb, recip, g, a)
    ELSE UpdateAHRS(qq, fb, recip, g, a, m)

\* lines 164-263: mahonyAHRSupdate, from state (qq, fb, recip): the new q and
\* integralFB
mahonyAHRSupdate(qq, fb, recip, g, a, m, dt) ==
    UpdateWithTimestep(qq, fb, MergeTimestep(dt, recip), g, a, m)

----------------------------------------------------------------------------
\* Math.sin, Math.cos, Math.acos and the non-finite results of toVector

PI == RoundDiv(31416 * SCALE, 10000)
HalfPI == RoundDiv(15708 * SCALE, 10000)

\* x - x^3/3! + x^5/5! - x^7/7! + x^9/9!, for 0 <= x <= pi/2
SinSeries(x) ==
    LET x2 == Mul(x, x)
        t3 == RoundDiv(Mul(x, x2), 6)
        t5 == RoundDiv(Mul(t3, x2), 20)
        t7 == RoundDiv(Mul(t5, x2), 42)
        t9 == RoundDiv(Mul(t7, x2), 72)
    IN x - t3 + t5 - t7 + t9

\* 1 - x^2/2! + x^4/4! - x^6/6! + x^8/8! - x^10/10!, for 0 <= x <= pi/2
CosSeries(x) ==
    LET x2  == Mul(x, x)
        t2  == RoundDiv(x2, 2)
        t4  == RoundDiv(Mul(t2, x2), 12)
        t6  == RoundDiv(Mul(t4, x2), 30)
        t8  == RoundDiv(Mul(t6, x2), 56)
        t10 == RoundDiv(Mul(t8, x2), 90)
    IN One - t2 + t4 - t6 + t8 - t10

\* Math.sin(x), -pi <= x <= pi
Sin(x) ==
    LET ax == Abs(x)
        s  == IF ax > HalfPI THEN SinSeries(PI - ax) ELSE SinSeries(ax)
    IN IF x < 0 THEN -s ELSE s

\* Math.cos(x), -pi <= x <= pi
Cos(x) ==
    LET ax == Abs(x)
    IN IF ax > HalfPI THEN -CosSeries(PI - ax) ELSE CosSeries(ax)

RECURSIVE AcosSearch(_, _, _)
\* The least angle in lo..hi whose cosine is at most x.
AcosSearch(x, lo, hi) ==
    IF lo >= hi THEN lo
    ELSE LET mid == (lo + hi) \div 2
         IN IF Cos(mid) <= x THEN AcosSearch(x, lo, mid) ELSE AcosSearch(x, mid + 1, hi)

\* A double that is finite, NaN, or an infinity of sign v.
Fin(v) == [k |-> "fin", v |-> v]
NaN == [k |-> "nan", v |-> 0]
Inf(sgn) == [k |-> "inf", v |-> sgn]

\* Math.acos(x): NaN outside [-1, 1]
Acos(x) == IF x > One \/ x < -One THEN NaN ELSE Fin(AcosSearch(x, 0, PI))

\* n * x for a small integer n and a double x
Times(n, x) == IF x.k = "fin" THEN Fin(n * x.v) ELSE x

\* x / n for a small integer n > 0 and a double x
Over(x, n) == IF x.k = "fin" THEN Fin(RoundDiv(x.v, n)) ELSE x

\* Math.sin(x) for a double x in [-pi, pi]
SinD(x) == IF x.k = "fin" THEN Fin(Sin(x.v)) ELSE NaN

\* Faulty variant of Quot: a zero divisor yields 0.
QuotGuarded(a, d) ==
    IF d.k = "nan" THEN NaN
    ELSE IF d.v = 0 THEN Fin(0)
    ELSE Fin(RoundDiv(a * SCALE, d.v))

\* a / d for a finite a and a double d that is finite or NaN:
\* 0/0 is NaN, a/0 an infinity of the sign of a
Quot(a, d) ==
    IF d.k = "nan" THEN NaN
    ELSE IF d.v = 0 THEN (IF a = 0 THEN NaN ELSE Inf(IF a > 0 THEN 1 ELSE -1))
    ELSE Fin(RoundDiv(a * SCALE, d.v))

----------------------------------------------------------------------------
\* The operations of the returned object

NoVec == <<0, 0, 0>>
NoDt == <<>>
NoRet == [op |-> "none", val |-> <<>>]
NoCall == [op |-> "none", g |-> NoVec, a |-> NoVec, m |-> NoVec, dt |-> NoDt]
\* Which variant a call ran: "imu" or "ahrs" for an update, else the call's name.
Variant(call) ==
    IF call.op # "update" THEN call.op
    ELSE IF call.m = Zero3 THEN "imu" ELSE "ahrs"
Snapshot == [q |-> q, fb |-> integralFB, recip |-> recipSampleFreq,
             kp |-> twoKp, ki |-> twoKi, variant |-> Variant(last)]

SampleIntervals == {20, 1000, 2500}
GyroVals == { <<0, 0, 0>>, <<One, 0, 0>>, <<0, -One, One>> }
AccelVals == { <<0, 0, 0>>, <<0, 0, One>>, <<0, One, One>> }
MagVals == { <<0, 0, 0>>, <<0, One, 0>> }
DeltaVals == { <<>>, <<0>>, <<Half>>, <<2 * One>> }
SeedVals == { <<One, -One, 0>> }

\* lines 20-37: the state after Mahony(sampleInterval)
Init ==
    /\ sampleInterval \in SampleIntervals
    /\ twoKp = twoKpDef
    /\ twoKi = twoKiDef
    /\ q = <<One, 0, 0, 0>>
    /\ integralFB = <<0, 0, 0>>
    /\ recipSampleFreq = RecipSampleFreq0(sampleInterval)
    /\ ret = NoRet
    /\ last = NoCall
    /\ pre = [q |-> <<One, 0, 0, 0>>, fb |-> <<0, 0, 0>>,
              recip |-> RecipSampleFreq0(sampleInterval),
              kp |-> twoKpDef, ki |-> twoKiDef, variant |-> "none"]
    /\ calls = 0

\* Faulty variant of InitialQuat: a non-zero angle (a quarter turn) is used.
InitialQuatQuarterTurn(am) ==
    LET angle    == HalfPI
        sinAngle == Sin(RoundDiv(angle, 2))
    IN <<Cos(RoundDiv(angle, 2)), Mul(am[1], sinAngle), Mul(am[2], sinAngle),
         Mul(am[3], sinAngle)>>

\* lines 50-57: the quaternion initialise(amx, amy, amz) stores
InitialQuat(am) ==
    LET angle    == 0
        sinAngle == Sin(RoundDiv(angle, 2))
    IN <<Cos(RoundDiv(angle, 2)), Mul(am[1], sinAngle), Mul(am[2], sinAngle),
         Mul(am[3], sinAngle)>>

\* lines 75-84: the object toVector() returns
AxisAngle(qq) ==
    LET angle    == Times(2, Acos(qq[1]))
        sinAngle == SinD(Over(angle, 2))
    IN <<angle, Quot(qq[2], sinAngle), Quot(qq[3], sinAngle), Quot(qq[4], sinAngle)>>

\* initialise(amx, amy, amz), lines 50-57
Initialise(am) ==
    /\ calls < MaxCalls
    /\ q' = InitialQuat(am)
    /\ pre' = Snapshot
    /\ last' = [op |-> "initialise", g |-> NoVec, a |-> am, m |-> NoVec, dt |-> NoDt]
    /\ calls' = calls + 1
    /\ ret' = NoRet
    /\ UNCHANGED <<sampleInterval, twoKp, twoKi, integralFB, recipSampleFreq>>

\* the assignments of an update to q0..q3 and integralFBx..z
Store(r) == q' = r.q /\ integralFB' = r.fb

\* update(gx, gy, gz, ax, ay, az, mx, my, mz, deltaTimeSec), lines 59, 164-263
Update(g, a, m, dt) ==
    /\ calls < MaxCalls
    /\ recipSampleFreq' = MergeTimestep(dt, recipSampleFreq)
    /\ Store(mahonyAHRSupdate(q, integralFB, recipSampleFreq, g, a, m, dt))
    /\ pre' = Snapshot
    /\ last' = [op |-> "update", g |-> g, a |-> a, m |-> m, dt |-> dt]
    /\ calls' = calls + 1
    /\ ret' = NoRet
    /\ UNCHANGED <<sampleInterval, twoKp, twoKi>>

\* getQuaternion(), lines 61-68
GetQuaternion ==
    /\ calls < MaxCalls
    /\ ret' = [op |-> "getQuaternion", val |-> q]
    /\ calls' = calls + 1
    /\ UNCHANGED <<sampleInterval, twoKp, twoKi, q, integralFB, recipSampleFreq,
                   last, pre>>

\* toVector(), lines 75-84
ToVector ==
    /\ calls < MaxCalls
    /\ ret' = [op |-> "toVector", val |-> AxisAngle(q)]
    /\ calls' = calls + 1
    /\ UNCHANGED <<sampleInterval, twoKp, twoKi, q, integralFB, recipSampleFreq,
                   last, pre>>

Next ==
    \/ \E am \in SeedVals : Initialise(am)
    \/ \E g \in GyroVals, a \in AccelVals, m \in MagVals, dt \in DeltaVals :
          Update(g, a, m, dt)
    \/ GetQuaternion
    \/ ToVector

Spec == Init /\ [][Next]_vars

----------------------------------------------------------------------------
\* Properties

\* The timestep Mahony(sampleInterval) configures: sampleInterval / 1000 seconds.
Configured == RecipSampleFreq0(sampleInterval)

\* The last call was an update / an initialise.
Updated == last.op = "update"
Initialised == last.op = "initialise"

\* C1: after every update call the stored quaternion has norm 1: its squared
\* norm differs from 1 by at most the rounding allowance NormTol.
C1_UnitNorm == Updated => Abs(NormSq(q) - One) <= NormTol

\* C1 witness: an update has rotated an orientation that was not the identity.
C1_Witness == Updated /\ pre.q # Identity /\ q # pre.q /\ ~AccelInvalid(last.a)

\* C2 as claimed: the timestep an update uses is deltaTimeSec when that is
\* supplied and non-zero, and the configured timestep otherwise.  The timestep
\* the call used is the value line 165 stored in recipSampleFreq.
C2_TimestepSelected ==
    Updated =>
        recipSampleFreq = (IF Len(last.dt) = 1 /\ last.dt[1] # 0
                           THEN last.dt[1]
                           ELSE Configured)

\* C3 as claimed: a deltaTimeSec overrides the timestep for its call only, the
\* stored timestep stays the configured one after any sequence of calls.
C3_StoredTimestepConfigured == recipSampleFreq = Configured

\* C4: with a zero integral gain the integral feedback is (0,0,0) after every
\* update call, zero accelerometer readings included.
C4_NoWindup == (Updated /\ twoKi = 0) => integralFB = Zero3

\* C4 witness: an update with a zero rate has turned the orientation, so its
\* error was not zero and the proportional feedback acted on it.
C4_Witness ==
    /\ Updated /\ twoKi = 0
    /\ last.g = Zero3 /\ q # pre.q
    /\ integralFB = Zero3

\* C5: from the identity orientation an update whose gyro, accelerometer and
\* magnetometer inputs are all zero leaves the orientation at the identity and
\* the integral feedback unchanged, with or without deltaTimeSec.
C5_ZeroInputIdentity ==
    (Updated /\ pre.q = Identity
     /\ last.g = Zero3 /\ last.a = Zero3 /\ last.m = Zero3)
        => (q = Identity /\ integralFB = pre.fb)

\* C5 witness: such a call, made with a deltaTimeSec that sets a non-zero
\* timestep.
C5_Witness ==
    /\ Updated /\ pre.q = Identity
    /\ last.g = Zero3 /\ last.a = Zero3 /\ last.m = Zero3
    /\ Len(last.dt) = 1 /\ recipSampleFreq > 0
    /\ q = Identity

\* C6 as claimed: an update with a non-zero angular rate, repeated with the
\* same arguments, leaves an orientation that differs from the one the first
\* of the two calls left.
C6_RepeatMovesOrientation ==
    [][ (Updated /\ last' = last /\ calls' = calls + 1 /\ ret'.op = "none"
         /\ last.g # Zero3)
            => q' # q ]_vars

\* C7: initialise leaves the orientation at (1,0,0,0) whatever its arguments
\* and the state it is called in, and changes neither the integral feedback,
\* the gains nor the stored timestep.
C7_InitialiseIsReset ==
    Initialised =>
        /\ q = Identity
        /\ integralFB = pre.fb
        /\ twoKp = pre.kp /\ twoKi = pre.ki
        /\ recipSampleFreq = pre.recip

\* C7 witness: initialise was called with a non-zero vector after an update
\* had turned the orientation away from the identity.
C7_Witness == Initialised /\ pre.q # Identity /\ last.a # Zero3 /\ q = Identity

\* C8: toVector at the identity orientation returns angle 0 and non-finite
\* x, y, z, and no call of toVector changes the filter state.
C8_ToVectorAtIdentity ==
    [][ (ret'.op = "toVector" /\ calls' = calls + 1)
            => /\ UNCHANGED <<q, integralFB, recipSampleFreq, twoKp, twoKi>>
               /\ q = Identity =>
                    /\ ret'.val[1] = Fin(0)
                    /\ ret'.val[2].k # "fin"
                    /\ ret'.val[3].k # "fin"
                    /\ ret'.val[4].k # "fin" ]_vars

\* C8 witness: toVector has returned while the orientation was the identity
\* that an update had left.
C8_Witness ==
    /\ ret.op = "toVector" /\ q = Identity /\ Updated
    /\ ret.val[1] = Fin(0) /\ ret.val[2] = NaN

\* C9: every update chooses its variant from its own magnetometer input: the
\* state it leaves is that of the 6-axis update when mx = my = mz = 0 and that
\* of the 9-axis body otherwise, whatever the variant of the call before.
C9_VariantPerCall ==
    Updated =>
        [q |-> q, fb |-> integralFB] =
            (IF last.m = Zero3
             THEN UpdateIMU(pre.q, pre.fb, recipSampleFreq, last.g, last.a)
             ELSE UpdateAHRS(pre.q, pre.fb, recipSampleFreq, last.g, last.a, last.m))

\* C9 witness: a 6-axis update that turned the orientation right after a
\* 9-axis update.
C9_Witness ==
    /\ Updated /\ last.m = Zero3 /\ pre.variant = "ahrs"
    /\ ~AccelInvalid(last.a) /\ q # pre.q

\* C10: an update whose accelerometer reading is the zero vector leaves the
\* integral feedback unchanged and stores the gyro-only integration of the
\* prior orientation, the same for every magnetometer input.
C10_ZeroAccelGyroOnly ==
    (Updated /\ last.a = Zero3) =>
        /\ integralFB = pre.fb
        /\ q = NormaliseQuat(IntegrateRate(pre.q, ScaleRate(last.g, recipSampleFreq)))

\* C10 witness: a 9-axis call with a zero accelerometer reading and a non-zero
\* rate that turned the orientation.
C10_Witness ==
    /\ Updated /\ last.a = Zero3 /\ last.m # Zero3
    /\ last.g # Zero3 /\ q # pre.q

====
